---- MODULE Spec2Model ----
(***************************************************************************)
(* Model of the cpit client library (src/cpit.go, second definition of the *)
(* package, lines 556-1172): the shared default store, the functional      *)
(* options, the request pipeline (doHttp / run / runImage) and the public  *)
(* operations.  Of the file's first definition (lines 1-554) the body     *)
(* path is modelled: WithBody, getBodyReader and the missing-body check.   *)
(*                                                                         *)
(* Strings are sequences of tokens (<<>> is the empty string), so that     *)
(* strings.TrimSuffix, concatenation and "contains" are computed.          *)
(***************************************************************************)
EXTENDS Integers, Sequences, FiniteSets, TLC

(* ------------------------------ bounds --------------------------------- *)
\* longest run of "/" at the end of a base URL handed to the library
MaxSlashes == 2
\* longest option list handed to one public operation
MaxOpts == 2
\* number of goroutines in the lock-level specification
NProcs == 2
\* largest quality handed to WithQuality (the smallest is -1)
MaxQuality == 102

(* ------------------------------ strings -------------------------------- *)
Range(s) == {s[i] : i \in 1..Len(s)}

\* strings.TrimSuffix(s, suffix) for a one-token suffix
TrimSuffix(s, tok) ==
    IF Len(s) > 0 /\ s[Len(s)] = tok THEN SubSeq(s, 1, Len(s) - 1) ELSE s

\* strings.TrimPrefix(s, prefix) for a one-token prefix
TrimPrefix(s, tok) ==
    IF Len(s) > 0 /\ s[1] = tok THEN SubSeq(s, 2, Len(s)) ELSE s

EndsWith(s, tok) == Len(s) > 0 /\ s[Len(s)] = tok

Slashes(k) == [i \in 1..k |-> "/"]

(* --------------------------- input universes --------------------------- *)
\* base URLs: "", "/", "//", ..., "x", "x/", "x//", ... and one ending in /api
Urls == {Slashes(k) : k \in 0..MaxSlashes}
          \cup {<<"x">> \o Slashes(k) : k \in 0..MaxSlashes}
\* the base URLs the pipeline specification passes to the setter
DefaultUrls == {<<>>, <<"x", "/api", "/">>}
Keys == {<<>>, <<"k1">>}
Clients == {"nil", "c1"}
Models == {"m"}
Ids == {"i"}

\* data handed to UpsertItem: nil, map{"title":"A"}, a value json cannot encode
Datas == {"nil", "objA", "chan"}

(* ------------------------------- errors -------------------------------- *)
Nil == [kind |-> "nil", code |-> 0]
Err(text) == [kind |-> text, code |-> 0]
ErrNotFound == [kind |-> "not found", code |-> 0]
ErrUnexpectedStatus(sc) == [kind |-> "unexpected status code", code |-> sc]

(* --------------------------- query parameters -------------------------- *)
\* url.Values: key -> list of values; an absent key has the empty list
ParamKeys == {"fields", "filter", "h", "limit", "locale", "m", "mime",
              "populate", "q", "skip", "sort", "w"}
\* url.Values.Encode sorts by key
ParamOrder == <<"fields", "filter", "h", "limit", "locale", "m", "mime",
                "populate", "q", "skip", "sort", "w">>

\* make(url.Values)
EmptyParams == [k \in ParamKeys |-> <<>>]

\* (mutant) url.Values.Add: the value is appended to what the key held
ParamsAdd(params, k, v) == [params EXCEPT ![k] = Append(@, v)]

\* url.Values.Set: replaces whatever the key held by the single value v
ParamsSet(params, k, v) == [params EXCEPT ![k] = <<v>>]

\* url.Values.Has
ParamsHas(params, k) == Len(params[k]) > 0

\* strconv.Itoa on the small integers of the model
Itoa(n) == ToString(n)

RECURSIVE EncodeKey(_, _, _)
\* the pairs k=v of one key, every one but the text's first after an "&"
EncodeKey(k, vs, first) ==
    IF vs = <<>> THEN <<>>
    ELSE (IF first THEN <<>> ELSE <<"&">>) \o <<k, "=", Head(vs)>>
           \o EncodeKey(k, Tail(vs), FALSE)

RECURSIVE EncodeFrom(_, _, _)
EncodeFrom(params, i, first) ==
    IF i > Len(ParamOrder) THEN <<>>
    ELSE LET k == ParamOrder[i]
             vs == params[k]
         IN EncodeKey(k, vs, first) \o EncodeFrom(params, i + 1, first /\ Len(vs) = 0)

\* url.Values.Encode: "k=v&k2=v2", keys sorted (the values of the model need
\* no percent-escaping)
ParamsEncode(params) == EncodeFrom(params, 1, TRUE)

(* ------------------------------ the request ---------------------------- *)
NilBody == [kind |-> "nil", data |-> "nil"]

\* dataWrapper{Data: data}
dataWrapper(data) == [kind |-> "dataWrapper", data |-> data]

\* newCockpitReq: the four defaults and an empty parameter collection; the
\* other fields have Go's zero values
newCockpitReq(d) ==
    [httpClient |-> d.httpClient,
     apiKey     |-> d.apiKey,
     baseURL    |-> d.baseUrl,
     method     |-> "",
     path       |-> <<>>,
     params     |-> EmptyParams,
     body       |-> NilBody,
     debug      |-> d.debug]

(* ------------------------------- options ------------------------------- *)
Ok(r) == [r |-> r, err |-> Nil]
Fail(r, text) == [r |-> r, err |-> Err(text)]

WithHttpClient(c, r) == Ok([r EXCEPT !.httpClient = c])

WithBaseURL(url, r) ==
    IF url = <<>> THEN Fail(r, "url is required")
    ELSE Ok([r EXCEPT !.baseURL = TrimSuffix(url, "/")])

WithApiKey(key, r) ==
    IF key = <<>> THEN Fail(r, "apikey is required")
    ELSE Ok([r EXCEPT !.apiKey = key])

WithDebugMode(enabled, r) == Ok([r EXCEPT !.debug = enabled])

ResizeModes == {"thumbnail", "bestFit", "resize", "fitToWidth", "fitToHeight"}
MimeTypes == {"auto", "gif", "jpeg", "png", "webp", "bmp"}

WithResizeMode(m, r) ==
    IF m \notin ResizeModes THEN Fail(r, "invalid resize mode")
    ELSE Ok([r EXCEPT !.params = ParamsSet(@, "m", m)])

WithWidth(w, r) ==
    IF w < 1 THEN Fail(r, "width must be greater than 0")
    ELSE Ok([r EXCEPT !.params = ParamsSet(@, "w", Itoa(w))])

WithHeight(h, r) ==
    IF h < 1 THEN Fail(r, "height must be greater than 0")
    ELSE Ok([r EXCEPT !.params = ParamsSet(@, "h", Itoa(h))])

\* (mutant) the two ends of the range are refused
WithQualityExclusive(q, r) ==
    IF q <= 1 \/ q >= 100 THEN Fail(r, "quality must be between 1 and 100")
    ELSE Ok([r EXCEPT !.params = ParamsSet(@, "q", Itoa(q))])

WithQuality(q, r) ==
    IF q < 1 \/ q > 100 THEN Fail(r, "quality must be between 1 and 100")
    ELSE Ok([r EXCEPT !.params = ParamsSet(@, "q", Itoa(q))])

WithMime(mime, r) ==
    IF mime \notin MimeTypes THEN Fail(r, "invalid mime type")
    ELSE Ok([r EXCEPT !.params = ParamsSet(@, "mime", mime)])

WithLocale(locale, r) == Ok([r EXCEPT !.params = ParamsSet(@, "locale", locale)])
WithFields(fields, r) == Ok([r EXCEPT !.params = ParamsSet(@, "fields", fields)])
WithFilter(filter, r) == Ok([r EXCEPT !.params = ParamsSet(@, "filter", filter)])
WithSort(sort, r) == Ok([r EXCEPT !.params = ParamsSet(@, "sort", sort)])

WithLimit(limit, r) ==
    IF limit < 1 THEN Fail(r, "limit must be greater than 0")
    ELSE Ok([r EXCEPT !.params = ParamsSet(@, "limit", Itoa(limit))])

WithSkip(skip, r) ==
    IF skip < 0 THEN Fail(r, "skip must be greater than or equal to 0")
    ELSE Ok([r EXCEPT !.params = ParamsSet(@, "skip", Itoa(skip))])

WithPopulate(enabled, r) ==
    Ok([r EXCEPT !.params = ParamsSet(@, "populate", IF enabled THEN "1" ELSE "0")])

\* WithBody (first definition of the file): the body is taken as it is
WithBody(b, r) == Ok([r EXCEPT !.body = b])

\* an option value: the closure a WithX(arg) call returns, as [name, <arg>];
\* the argument's field is s (a string held as tokens), t (a string held
\* whole), n (int), b (bool) or c (client)
OptS(name, s) == [name |-> name, s |-> s]
OptT(name, t) == [name |-> name, t |-> t]
OptN(name, n) == [name |-> name, n |-> n]
OptB(name, b) == [name |-> name, b |-> b]
OptC(name, c) == [name |-> name, c |-> c]
OptBody(b) == [name |-> "WithBody", body |-> b]

\* o(r): running the closure on the request
ApplyOpt(o, r) ==
    CASE o.name = "WithHttpClient" -> WithHttpClient(o.c, r)
      [] o.name = "WithBaseURL"    -> WithBaseURL(o.s, r)
      [] o.name = "WithApiKey"     -> WithApiKey(o.s, r)
      [] o.name = "WithDebugMode"  -> WithDebugMode(o.b, r)
      [] o.name = "WithResizeMode" -> WithResizeMode(o.t, r)
      [] o.name = "WithWidth"      -> WithWidth(o.n, r)
      [] o.name = "WithHeight"     -> WithHeight(o.n, r)
      [] o.name = "WithQuality"    -> WithQuality(o.n, r)
      [] o.name = "WithMime"       -> WithMime(o.t, r)
      [] o.name = "WithLocale"     -> WithLocale(o.t, r)
      [] o.name = "WithFields"     -> WithFields(o.t, r)
      [] o.name = "WithFilter"     -> WithFilter(o.t, r)
      [] o.name = "WithSort"       -> WithSort(o.t, r)
      [] o.name = "WithLimit"      -> WithLimit(o.n, r)
      [] o.name = "WithSkip"       -> WithSkip(o.n, r)
      [] o.name = "WithPopulate"   -> WithPopulate(o.b, r)
      [] o.name = "WithBody"       -> WithBody(o.body, r)

RECURSIVE applyOptionsAll(_, _)
\* (mutant) keeps running the options after one failed
applyOptionsAll(r, opts) ==
    IF opts = <<>> THEN [r |-> r, err |-> Nil, applied |-> <<>>]
    ELSE LET a == ApplyOpt(Head(opts), r)
             rest == applyOptionsAll(a.r, Tail(opts))
         IN [r |-> rest.r,
             err |-> IF a.err # Nil THEN a.err ELSE rest.err,
             applied |-> <<Head(opts)>> \o rest.applied]

RECURSIVE applyOptionsRec(_, _)
applyOptionsRec(r, opts) ==
    IF opts = <<>> THEN [r |-> r, err |-> Nil, applied |-> <<>>]
    ELSE LET a == ApplyOpt(Head(opts), r)
         IN IF a.err # Nil
            THEN [r |-> a.r, err |-> a.err, applied |-> <<Head(opts)>>]
            ELSE LET rest == applyOptionsRec(a.r, Tail(opts))
                 IN [r |-> rest.r, err |-> rest.err,
                     applied |-> <<Head(opts)>> \o rest.applied]

\* applyOptions: runs the options in order on r and stops at the first error;
\* applied lists the options that were run
applyOptions(r, opts) == applyOptionsRec(r, opts)

(* ------------------------- transport and JSON --------------------------- *)
\* a JSON text or a decoded value, abstractly: what it is, the items it
\* lists and the total it carries
Val(kind, items, total) == [kind |-> kind, items |-> items, total |-> total]
NilVal == Val("nil", <<>>, 0)

\* response bodies: [..items..], {"data":[..],"meta":{"total":N}}, not
\* JSON, and a JSON text that breaks off where reading the body fails
RespBodies == {Val("array", <<"a">>, 0), Val("envelope", <<"a">>, 42),
               Val("garbage", <<>>, 0), Val("truncated", <<>>, 0)}
Statuses == {200, 404, 500}

\* what httpClient.Do returns: a response, a transport error without a
\* response, or (CheckRedirect failure) an error together with a response
Outcomes ==
    {[kind |-> "resp", status |-> sc, body |-> b] : sc \in Statuses, b \in RespBodies}
      \cup {[kind |-> "err", status |-> 0, body |-> NilVal],
            [kind |-> "resp+err", status |-> 302, body |-> Val("garbage", <<>>, 0)]}

OutcomeHasErr(o) == o.kind \in {"err", "resp+err"}

\* http.StatusText
StatusText(sc) ==
    CASE sc = 200 -> "OK"
      [] sc = 302 -> "Found"
      [] sc = 404 -> "Not Found"
      [] sc = 500 -> "Internal Server Error"
      [] OTHER -> ""

\* the JSON text of a caller's data value
JsonOf(data) ==
    CASE data = "nil"  -> <<"null">>
      [] data = "objA" -> <<"{", "\"title\"", ":", "\"A\"", "}">>
      [] OTHER -> <<>>

\* json.NewEncoder(buf).Encode(r.body): a dataWrapper struct is an object
\* with the one key "data", any other value is its own JSON text; Encode
\* ends the text with a newline; a value json cannot encode is an error
JsonEncode(body) ==
    IF body.data = "chan"
    THEN [err |-> Err("failed to encode body"), text |-> <<>>]
    ELSE IF body.kind = "dataWrapper"
    THEN [err |-> Nil,
          text |-> <<"{", "\"data\"", ":">> \o JsonOf(body.data) \o <<"}", "\n">>]
    ELSE [err |-> Nil, text |-> JsonOf(body.data) \o <<"\n">>]

\* json.NewDecoder(resp.Body).Decode(output), by the Go type of output:
\* Items[T] (a struct) takes a JSON object, []T takes a JSON array, T (a
\* struct) takes a JSON object; anything else is a decode error
Decode(body, target) ==
    CASE target = "Items" /\ body.kind = "envelope" ->
            [err |-> Nil, val |-> Val("Items", body.items, body.total)]
      [] target = "slice" /\ body.kind = "array" ->
            [err |-> Nil, val |-> Val("slice", body.items, 0)]
      [] target = "T" /\ body.kind = "envelope" ->
            [err |-> Nil, val |-> Val("T", body.items, body.total)]
      \* the read of the body fails (the context's deadline passes, the
      \* connection is reset) before the JSON value is complete
      [] body.kind = "truncated" ->
            [err |-> Err("body read error"), val |-> Val(target, <<>>, 0)]
      \* the bytes end, without a read failure, before the value is complete
      [] body.kind = "partial" ->
            [err |-> Err("unexpected EOF"), val |-> Val(target, <<>>, 0)]
      [] OTHER -> [err |-> Err("json decode error"), val |-> Val(target, <<>>, 0)]

\* body, _ := io.ReadAll(resp.Body): the bytes read; of a body whose read
\* fails, the bytes before the failure, the failure itself being dropped
ReadAll(body) == IF body.kind = "truncated" THEN Val("partial", <<>>, 0) ELSE body

\* one call on a response body: on "wire" for the body the transport
\* returned, on "buffer" for the in-memory copy doHttp puts in its place;
\* op is ClientClose (net/http closed the body before Do returned), ReadAll,
\* Decode, Copy (io.Copy to io.Discard) or Close
Ev(on, op) == [on |-> on, op |-> op]

(* ------------------------------ doHttp --------------------------------- *)
\* the debug record: the formatted text and the body text that ends it
DebugRecord(r, url, outcome) ==
    LET sc == IF OutcomeHasErr(outcome) THEN <<"ERROR">>
              ELSE <<Itoa(outcome.status), StatusText(outcome.status)>>
        body == IF OutcomeHasErr(outcome) THEN Val("error text", <<>>, 0)
                ELSE ReadAll(outcome.body)
    IN [text |-> <<"[Cockpit][">> \o sc \o <<"]", r.method>> \o url \o <<"|">>,
        body |-> body]

\* (mutant) the debug record also prints the request headers
DebugRecordWithHeaders(r, url, outcome) ==
    [DebugRecord(r, url, outcome) EXCEPT !.text = @ \o <<"Api-Key">> \o r.apiKey]

\* slog.Debug(fmt.Sprintf("[Cockpit][%s] %s %s | %s\n", sc, r.method, url, body))
debugLog(r, url, outcome) == DebugRecord(r, url, outcome)

NoIO == [sent |-> <<>>, resp |-> <<>>, out |-> <<>>, log |-> <<>>, events |-> <<>>]

\* the response httpClient.Do hands back, if any, and what was done to its
\* body before Do returned: a response that comes with an error has its
\* body closed already
DoResp(outcome) ==
    IF outcome.kind = "err" THEN <<>> ELSE <<outcome @@ [on |-> "wire"]>>
DoEvents(outcome) ==
    IF outcome.kind = "resp+err" THEN <<Ev("wire", "ClientClose")>> ELSE <<>>

\* the debug block's handling of the response: the body is read whole and
\* closed, and resp.Body becomes a reader over the bytes read
debugResp(outcome) ==
    IF outcome.kind = "err" THEN <<>>
    ELSE <<[outcome EXCEPT !.body = ReadAll(@)] @@ [on |-> "buffer"]>>
debugEvents(outcome) ==
    IF outcome.kind = "err" THEN <<>>
    ELSE <<Ev("wire", "ReadAll"), Ev("wire", "Close")>>

\* (mutant) only the API key is checked
configErrorKeyOnly(r) ==
    IF r.apiKey = <<>> THEN Err("apiKey is required") ELSE Nil

\* the configuration checks that open doHttp
configError(r) ==
    IF r.apiKey = <<>> THEN Err("apiKey is required")
    ELSE IF r.baseURL = <<>> THEN Err("baseURL is required")
    ELSE Nil

\* doHttp: checks the configuration, encodes the body, issues the call to
\* the transport (whose answer is outcome) and logs when r.debug is set.
\* resp is what the transport answered, out the response doHttp returns;
\* sent, resp, out and log hold at most one element each.
doHttp(r, outcome) ==
    LET cfg == configError(r)
        httpClient == IF r.httpClient = "nil" THEN "http.DefaultClient" ELSE r.httpClient
        enc == IF r.body.kind # "nil" THEN JsonEncode(r.body)
               ELSE [err |-> Nil, text |-> <<>>]
        url == r.baseURL \o r.path \o <<"?">> \o ParamsEncode(r.params)
        req == [client |-> httpClient, method |-> r.method, url |-> url,
                apiKey |-> r.apiKey, contentType |-> "application/json",
                body |-> enc.text]
    IN IF cfg # Nil THEN [err |-> cfg] @@ NoIO
       ELSE IF enc.err # Nil THEN [err |-> enc.err] @@ NoIO
       ELSE [err  |-> IF OutcomeHasErr(outcome) THEN Err("transport error") ELSE Nil,
             sent |-> <<req>>,
             resp |-> <<outcome>>,
             out  |-> IF r.debug THEN debugResp(outcome) ELSE DoResp(outcome),
             log  |-> IF r.debug THEN <<debugLog(r, url, outcome)>> ELSE <<>>,
             events |-> DoEvents(outcome)
                          \o (IF r.debug THEN debugEvents(outcome) ELSE <<>>)]

(* --------------------------- run / runImage ----------------------------- *)
\* (mutant) 404 is not told apart from the other statuses
statusErrorNo404(sc) == IF sc # 200 THEN ErrUnexpectedStatus(sc) ELSE Nil

\* run's status checks: 404 is ErrNotFound, any other status but 200 is an
\* error that carries the status code
runStatusError(sc) ==
    IF sc = 404 THEN ErrNotFound
    ELSE IF sc # 200 THEN ErrUnexpectedStatus(sc)
    ELSE Nil

\* runImage's status checks
runImageStatusError(sc) ==
    IF sc = 404 THEN ErrNotFound
    ELSE IF sc # 200 THEN ErrUnexpectedStatus(sc)
    ELSE Nil

\* (mutant) run defers the Close only
runDeferredCloseOnly(on) == <<Ev(on, "Close")>>

\* run's deferred calls, in the order they run at return: the one deferred
\* last first, so io.Copy(io.Discard, resp.Body), then resp.Body.Close()
runDeferred(on) == <<Ev(on, "Copy"), Ev(on, "Close")>>

\* what doHttp returned, with the calls the caller then makes on the body
IoOf(h, evs) ==
    [sent |-> h.sent, resp |-> h.resp, out |-> h.out, log |-> h.log,
     events |-> h.events \o evs]

\* run: doHttp, then the status, then the decoding into output (target is
\* the Go type of output, "none" for a nil output)
run(r, target, outcome) ==
    LET h == doHttp(r, outcome)
    IN IF h.err # Nil THEN [err |-> h.err, val |-> Val(target, <<>>, 0)] @@ IoOf(h, <<>>)
       ELSE LET resp == h.out[1]
                on == resp.on
            IN IF resp.status = 404
               THEN [err |-> runStatusError(resp.status), val |-> Val(target, <<>>, 0)]
                      @@ IoOf(h, runDeferred(on))
               ELSE IF runStatusError(resp.status) # Nil
               THEN [err |-> runStatusError(resp.status), val |-> Val(target, <<>>, 0)]
                      @@ IoOf(h, <<Ev(on, "ReadAll")>> \o runDeferred(on))
               ELSE IF target # "none"
               THEN Decode(resp.body, target)
                      @@ IoOf(h, <<Ev(on, "Decode")>> \o runDeferred(on))
               ELSE [err |-> Nil, val |-> Val(target, <<>>, 0)]
                      @@ IoOf(h, runDeferred(on))

\* runImage: doHttp, then the whole body is read, then the status; the
\* bytes read are returned as they came
runImage(r, outcome) ==
    LET h == doHttp(r, outcome)
    IN IF h.err # Nil THEN [err |-> h.err, val |-> NilVal] @@ IoOf(h, <<>>)
       ELSE LET resp == h.out[1]
                io == IoOf(h, <<Ev(resp.on, "ReadAll"), Ev(resp.on, "Close")>>)
            IN IF runImageStatusError(resp.status) # Nil
               THEN [err |-> runImageStatusError(resp.status), val |-> NilVal] @@ io
               ELSE [err |-> Nil, val |-> ReadAll(resp.body)] @@ io

(* ------------------------- the public operations ------------------------ *)
\* the record of one call of a public operation: its inputs, the request
\* as newCockpitReq returned it (snap) and as it stood when the options
\* were done (req), the options that were run, the Go type decoded into,
\* the traffic with the transport, and what the operation returned
Returned(op, in, snap, a, target, x, ret, link) ==
    [op |-> op, model |-> in.model, id |-> in.id, data |-> in.data, opts |-> in.opts,
     snap |-> snap, req |-> a.r, applied |-> a.applied, target |-> target,
     sent |-> x.sent, resp |-> x.resp, out |-> x.out, log |-> x.log,
     events |-> x.events,
     err |-> x.err, ret |-> ret, link |-> link]

In(model, id, data, opts) == [model |-> model, id |-> id, data |-> data, opts |-> opts]

\* the early "return nil, err" after applyOptions failed
OptFailed(a) == [err |-> a.err, val |-> NilVal] @@ NoIO

\* what a (value, error) pair hands the caller: nil when err is set
OrNil(x) == IF x.err # Nil THEN NilVal ELSE x.val

\* (mutant) either parameter selects the paginated shape
paginatedEither(r) == ParamsHas(r.params, "skip") \/ ParamsHas(r.params, "limit")

\* GetItems' test for the paginated response shape
paginated(r) == ParamsHas(r.params, "skip") /\ ParamsHas(r.params, "limit")

\* (mutant) the unpaginated result is returned as the bare slice
itemsOfSliceBare(x) == OrNil(x)

\* &Items[T]{Data: output}
itemsOfSlice(x) == IF x.err # Nil THEN NilVal ELSE Val("Items", x.val.items, 0)

GetItems(d, model, opts, outcome) ==
    LET snap == newCockpitReq(d)
        r == [snap EXCEPT !.method = "GET", !.path = <<"/content/items/", model>>]
        a == applyOptions(r, opts)
        in == In(model, "", "nil", opts)
    IN IF a.err # Nil
       THEN Returned("GetItems", in, snap, a, "none", OptFailed(a), NilVal, <<>>)
       ELSE IF paginated(a.r)
       THEN LET x == run(a.r, "Items", outcome)
            IN Returned("GetItems", in, snap, a, "Items", x, OrNil(x), <<>>)
       ELSE LET x == run(a.r, "slice", outcome)
            IN Returned("GetItems", in, snap, a, "slice", x, itemsOfSlice(x), <<>>)

\* the operations that decode one object: GetSingleton, GetItem, GetAsset,
\* from the request newCockpitReq returned
getObjectFrom(op, snap, in, path, outcome) ==
    LET r == [snap EXCEPT !.method = "GET", !.path = path]
        a == applyOptions(r, in.opts)
    IN IF a.err # Nil
       THEN Returned(op, in, snap, a, "none", OptFailed(a), NilVal, <<>>)
       ELSE LET x == run(a.r, "T", outcome)
            IN Returned(op, in, snap, a, "T", x, OrNil(x), <<>>)

getObject(op, d, in, path, outcome) ==
    getObjectFrom(op, newCockpitReq(d), in, path, outcome)

GetSingleton(d, model, opts, outcome) ==
    getObject("GetSingleton", d, In(model, "", "nil", opts),
              <<"/content/item/", model>>, outcome)

\* GetItem after its first statement, r := newCockpitReq()
GetItemFrom(snap, model, id, opts, outcome) ==
    getObjectFrom("GetItem", snap, In(model, id, "nil", opts),
                  <<"/content/item/", model, "/", id>>, outcome)

GetItem(d, model, id, opts, outcome) ==
    GetItemFrom(newCockpitReq(d), model, id, opts, outcome)

GetAsset(d, id, opts, outcome) ==
    getObject("GetAsset", d, In("", id, "nil", opts), <<"/assets/", id>>, outcome)

\* GetAssetLink and GetUploadLink build a link and call nothing
GetAssetLink(d, id, opts) ==
    LET snap == newCockpitReq(d)
        r == [snap EXCEPT !.method = "GET", !.path = <<"/assets/", id>>]
        a == applyOptions(r, opts)
        in == In("", id, "nil", opts)
    IN IF a.err # Nil
       THEN Returned("GetAssetLink", in, snap, a, "none", OptFailed(a), NilVal, <<>>)
       ELSE Returned("GetAssetLink", in, snap, a, "none", [err |-> Nil] @@ NoIO, NilVal,
                     TrimSuffix(a.r.baseURL, "/api") \o <<"/assets/link/", id>>)

GetUploadLink(d, path, opts) ==
    LET snap == newCockpitReq(d)
        r == [snap EXCEPT !.method = "GET", !.path = <<"/assets/">> \o path]
        a == applyOptions(r, opts)
        in == In("", "", "nil", opts)
    IN IF a.err # Nil
       THEN Returned("GetUploadLink", in, snap, a, "none", OptFailed(a), NilVal, <<>>)
       ELSE Returned("GetUploadLink", in, snap, a, "none", [err |-> Nil] @@ NoIO, NilVal,
                     TrimSuffix(a.r.baseURL, "/api") \o <<"/storage/uploads/">>
                       \o TrimPrefix(path, "/"))

GetImage(d, id, opts, outcome) ==
    LET snap == newCockpitReq(d)
        r == [snap EXCEPT !.method = "GET", !.path = <<"/assets/image/", id>>]
        a == applyOptions(r, opts)
        in == In("", id, "nil", opts)
    IN IF a.err # Nil
       THEN Returned("GetImage", in, snap, a, "none", OptFailed(a), NilVal, <<>>)
       ELSE LET x == runImage(a.r, outcome)
            IN Returned("GetImage", in, snap, a, "raw", x, x.val, <<>>)

\* (mutant) the caller's data is the body as it is
upsertBodyBare(data) == [kind |-> "bare", data |-> data]

\* r.body = dataWrapper{Data: data}
upsertBody(data) == dataWrapper(data)

UpsertItem(d, model, data, opts, outcome) ==
    LET snap == newCockpitReq(d)
        r == [snap EXCEPT !.method = "POST", !.path = <<"/content/item/", model>>,
                          !.body = upsertBody(data)]
        a == applyOptions(r, opts)
        in == In(model, "", data, opts)
    IN IF a.err # Nil
       THEN Returned("UpsertItem", in, snap, a, "none", OptFailed(a), NilVal, <<>>)
       ELSE LET x == run(a.r, "T", outcome)
            IN Returned("UpsertItem", in, snap, a, "T", x, OrNil(x), <<>>)

DeleteItem(d, model, id, opts, outcome) ==
    LET snap == newCockpitReq(d)
        r == [snap EXCEPT !.method = "DELETE", !.path = <<"/content/item/", model, "/", id>>]
        a == applyOptions(r, opts)
        in == In(model, id, "nil", opts)
    IN IF a.err # Nil
       THEN Returned("DeleteItem", in, snap, a, "none", OptFailed(a), NilVal, <<>>)
       ELSE LET x == run(a.r, "none", outcome)
            IN Returned("DeleteItem", in, snap, a, "none", x, NilVal, <<>>)

(* ------------------------------ the state ------------------------------ *)
VARIABLES
    defaults,   \* the shared default store: httpClient, baseUrl, apiKey, debug
    urlArg,     \* the argument of the latest SetDefaultBaseUrl call
    last,       \* the record of the call that just returned (op "none": no call)
    mtx,        \* the RWMutex: w the goroutine that holds it for writing or
                \* waits to (0: none), readers the goroutines holding it
                \* for reading
    torn,       \* the defaults a setter has begun to store and not finished
    dirty,      \* the defaults whose value was stored by a setter that has
                \* not returned yet
    pc,         \* per goroutine, where it stands in its setter or
                \* newCockpitReq call
    job,        \* per goroutine, the default its setter sets and the value
    snap        \* per goroutine, the fields newCockpitReq has read so far

\* the state of the lock-level specification
cvars == <<mtx, torn, dirty, pc, job, snap>>

vars == <<defaults, urlArg, last, cvars>>

Procs == 1..NProcs
Fields == <<"httpClient", "apiKey", "baseUrl", "debug">>

NoJob == [field |-> "none", c |-> "nil", s |-> <<>>, b |-> FALSE]
NoSnap == [got |-> {}, tornRead |-> {}, earlyRead |-> {}, httpClient |-> "nil", apiKey |-> <<>>,
           baseUrl |-> <<>>, debug |-> FALSE]

\* the package-level variables' zero values
InitDefaults == [httpClient |-> "nil", baseUrl |-> <<>>, apiKey |-> <<>>, debug |-> FALSE]

NoCall ==
    Returned("none", In("", "", "nil", <<>>), newCockpitReq(InitDefaults),
             [r |-> newCockpitReq(InitDefaults), applied |-> <<>>], "none",
             [err |-> Nil] @@ NoIO, NilVal, <<>>)

Init ==
    /\ defaults = InitDefaults
    /\ urlArg = <<>>
    /\ last = NoCall
    /\ mtx = [w |-> 0, readers |-> {}]
    /\ torn = {}
    /\ dirty = {}
    /\ pc = [p \in Procs |-> "idle"]
    /\ job = [p \in Procs |-> NoJob]
    /\ snap = [p \in Procs |-> NoSnap]

Idle == last.op = "none"

(* ------------------------------ the setters ---------------------------- *)
StoreHttpClient ==
    /\ \E c \in Clients : defaults' = [defaults EXCEPT !.httpClient = c]
    /\ UNCHANGED <<urlArg, last, cvars>>

SetDefaultHttpClient == Idle /\ StoreHttpClient

\* (mutant) the URL is stored as given
storedUrlAsGiven(url) == url

\* strings.TrimSuffix(url, "/")
storedUrl(url) == TrimSuffix(url, "/")

StoreBaseUrlFrom(S) ==
    /\ \E url \in S :
         /\ defaults' = [defaults EXCEPT !.baseUrl = storedUrl(url)]
         /\ urlArg' = url
    /\ UNCHANGED <<last, cvars>>

SetBaseUrlFrom(S) == Idle /\ StoreBaseUrlFrom(S)

SetDefaultBaseUrl == SetBaseUrlFrom(DefaultUrls)

StoreApiKey ==
    /\ \E key \in Keys : defaults' = [defaults EXCEPT !.apiKey = key]
    /\ UNCHANGED <<urlArg, last, cvars>>

SetDefaultApiKey == Idle /\ StoreApiKey

StoreDebugMode ==
    /\ \E enabled \in BOOLEAN : defaults' = [defaults EXCEPT !.debug = enabled]
    /\ UNCHANGED <<urlArg, last, cvars>>

SetDefaultDebugMode == Idle /\ StoreDebugMode

(* ------------------------------ the calls ------------------------------ *)
SeqsUpTo(S, n) == UNION {[1..k -> S] : k \in 0..n}

\* the options of the pipeline specification: two that fail, one that
\* empties the base URL, and the ones that decide the list shape
PipelineOpts ==
    {OptS("WithBaseURL", <<>>), OptS("WithBaseURL", <<"/">>),
     OptS("WithApiKey", <<"k2">>), OptB("WithDebugMode", TRUE),
     OptN("WithLimit", 0), OptN("WithLimit", 1), OptN("WithSkip", 0)}

OptLists == SeqsUpTo(PipelineOpts, MaxOpts)

CallGetItems ==
    /\ Idle
    /\ \E model \in Models, opts \in OptLists, outcome \in Outcomes :
         last' = GetItems(defaults, model, opts, outcome)
    /\ UNCHANGED <<defaults, urlArg, cvars>>

CallGetSingleton ==
    /\ Idle
    /\ \E model \in Models, opts \in OptLists, outcome \in Outcomes :
         last' = GetSingleton(defaults, model, opts, outcome)
    /\ UNCHANGED <<defaults, urlArg, cvars>>

CallGetItem ==
    /\ Idle
    /\ \E model \in Models, id \in Ids, opts \in OptLists, outcome \in Outcomes :
         last' = GetItem(defaults, model, id, opts, outcome)
    /\ UNCHANGED <<defaults, urlArg, cvars>>

CallGetAsset ==
    /\ Idle
    /\ \E id \in Ids, opts \in OptLists, outcome \in Outcomes :
         last' = GetAsset(defaults, id, opts, outcome)
    /\ UNCHANGED <<defaults, urlArg, cvars>>

AssetLinkWith(lists) ==
    /\ Idle
    /\ \E id \in Ids, opts \in lists : last' = GetAssetLink(defaults, id, opts)
    /\ UNCHANGED <<defaults, urlArg, cvars>>

CallGetAssetLink == AssetLinkWith(OptLists)

CallGetUploadLink ==
    /\ Idle
    /\ \E path \in {<<"p">>, <<"/", "p">>}, opts \in OptLists :
         last' = GetUploadLink(defaults, path, opts)
    /\ UNCHANGED <<defaults, urlArg, cvars>>

CallGetImage ==
    /\ Idle
    /\ \E id \in Ids, opts \in OptLists, outcome \in Outcomes :
         last' = GetImage(defaults, id, opts, outcome)
    /\ UNCHANGED <<defaults, urlArg, cvars>>

CallUpsertItem ==
    /\ Idle
    /\ \E model \in Models, data \in Datas, opts \in OptLists, outcome \in Outcomes :
         last' = UpsertItem(defaults, model, data, opts, outcome)
    /\ UNCHANGED <<defaults, urlArg, cvars>>

CallDeleteItem ==
    /\ Idle
    /\ \E model \in Models, id \in Ids, opts \in OptLists, outcome \in Outcomes :
         last' = DeleteItem(defaults, model, id, opts, outcome)
    /\ UNCHANGED <<defaults, urlArg, cvars>>

\* the call's request goes out of scope when the caller has its result
Discard ==
    /\ ~Idle
    /\ last' = NoCall
    /\ UNCHANGED <<defaults, urlArg, cvars>>

Next ==
    \/ SetDefaultHttpClient
    \/ SetDefaultBaseUrl
    \/ SetDefaultApiKey
    \/ SetDefaultDebugMode
    \/ CallGetItems
    \/ CallGetSingleton
    \/ CallGetItem
    \/ CallGetAsset
    \/ CallGetAssetLink
    \/ CallGetUploadLink
    \/ CallGetImage
    \/ CallUpsertItem
    \/ CallDeleteItem
    \/ Discard

Spec == Init /\ [][Next]_vars

(* ------ the first definition of the file: WithBody and getBodyReader ----- *)
\* The file holds an earlier definition of the package (lines 1-554) whose
\* UpsertItem takes the body through WithBody, and whose doHttp turns it
\* into a reader with getBodyReader and refuses a POST without one.

\* a body as WithBody takes it: nil, an io.Reader, a []byte, a string (text
\* is the content) or any other value (data)
Body(kind, text, data) == [kind |-> kind, text |-> text, data |-> data]

BodiesFirst ==
    {Body("nil", <<>>, "nil"),
     Body("reader", <<"raw">>, "nil"),
     Body("bytes", <<>>, "nil"),
     Body("string", <<>>, "nil"),
     Body("string", <<"raw">>, "nil"),
     Body("value", <<>>, "objA"),
     Body("value", <<>>, "chan")}

\* (mutant) whatever is not nil is encoded as JSON, a stream's content as a
\* JSON string
getBodyReaderAllJson(body) ==
    CASE body.kind = "nil" -> [err |-> Nil, reader |-> FALSE, text |-> <<>>]
      [] body.kind \in {"reader", "bytes", "string"} ->
            [err |-> Nil, reader |-> TRUE, text |-> <<"\"">> \o body.text \o <<"\"", "\n">>]
      [] OTHER ->
            IF body.data = "chan"
            THEN [err |-> Err("failed to encode body"), reader |-> FALSE, text |-> <<>>]
            ELSE [err |-> Nil, reader |-> TRUE, text |-> JsonOf(body.data) \o <<"\n">>]

\* getBodyReader: no reader for nil, the content as it is for an
\* io.Reader, a []byte or a string, the JSON text for anything else
getBodyReader(body) ==
    CASE body.kind = "nil" -> [err |-> Nil, reader |-> FALSE, text |-> <<>>]
      [] body.kind \in {"reader", "bytes", "string"} ->
            [err |-> Nil, reader |-> TRUE, text |-> body.text]
      [] OTHER ->
            IF body.data = "chan"
            THEN [err |-> Err("failed to encode body"), reader |-> FALSE, text |-> <<>>]
            ELSE [err |-> Nil, reader |-> TRUE, text |-> JsonOf(body.data) \o <<"\n">>]

\* doHttp, first definition
doHttpFirst(r, outcome) ==
    LET cfg == configError(r)
        httpClient == IF r.httpClient = "nil" THEN "http.DefaultClient" ELSE r.httpClient
        body == getBodyReader(r.body)
        url == r.baseURL \o r.path \o <<"?">> \o ParamsEncode(r.params)
        req == [client |-> httpClient, method |-> r.method, url |-> url,
                apiKey |-> r.apiKey, contentType |-> "",
                body |-> body.text]
    IN IF cfg # Nil THEN [err |-> cfg] @@ NoIO
       ELSE IF body.err # Nil THEN [err |-> body.err] @@ NoIO
       ELSE IF r.method = "POST" /\ ~body.reader
            THEN [err |-> Err("body is required for upserting an item")] @@ NoIO
       ELSE [err  |-> IF OutcomeHasErr(outcome) THEN Err("transport error") ELSE Nil,
             sent |-> <<req>>,
             resp |-> <<outcome>>,
             out  |-> IF r.debug THEN debugResp(outcome) ELSE DoResp(outcome),
             log  |-> IF r.debug THEN <<debugLog(r, url, outcome)>> ELSE <<>>,
             events |-> DoEvents(outcome)
                          \o (IF r.debug THEN debugEvents(outcome) ELSE <<>>)]

\* run, first definition: any status but 200 is the unexpected-status
\* error; r.output is nil in the calls modelled (no WithOutput is passed),
\* so nothing is decoded
runFirst(r, outcome) ==
    LET h == doHttpFirst(r, outcome)
    IN IF h.err # Nil THEN [err |-> h.err, val |-> NilVal] @@ IoOf(h, <<>>)
       ELSE LET resp == h.out[1]
                on == resp.on
            IN IF resp.status # 200
               THEN [err |-> ErrUnexpectedStatus(resp.status), val |-> NilVal]
                      @@ IoOf(h, <<Ev(on, "ReadAll")>> \o runDeferred(on))
               ELSE [err |-> Nil, val |-> NilVal] @@ IoOf(h, runDeferred(on))

\* UpsertItem, first definition
UpsertItemFirst(d, model, opts, outcome) ==
    LET req0 == [newCockpitReq(d) EXCEPT !.body = Body("nil", <<>>, "nil")]
        r == [req0 EXCEPT !.method = "POST", !.path = <<"/content/item/", model>>]
        a == applyOptions(r, opts)
        in == In(model, "", "nil", opts)
    IN IF a.err # Nil
       THEN Returned("UpsertItemFirst", in, req0, a, "none", OptFailed(a), NilVal, <<>>)
       ELSE LET x == runFirst(a.r, outcome)
            IN Returned("UpsertItemFirst", in, req0, a, "none", x, NilVal, <<>>)

\* DeleteItem, first definition
DeleteItemFirst(d, model, id, opts, outcome) ==
    LET req0 == [newCockpitReq(d) EXCEPT !.body = Body("nil", <<>>, "nil")]
        r == [req0 EXCEPT !.method = "DELETE",
                          !.path = <<"/content/item/", model, "/", id>>]
        a == applyOptions(r, opts)
        in == In(model, id, "nil", opts)
    IN IF a.err # Nil
       THEN Returned("DeleteItemFirst", in, req0, a, "none", OptFailed(a), NilVal, <<>>)
       ELSE LET x == runFirst(a.r, outcome)
            IN Returned("DeleteItemFirst", in, req0, a, "none", x, NilVal, <<>>)

\* SetDefaultBaseUrl, first definition: the URL is stored as given
SetDefaultBaseUrlFirst ==
    /\ Idle
    /\ \E url \in DefaultUrls :
         /\ defaults' = [defaults EXCEPT !.baseUrl = url]
         /\ urlArg' = url
    /\ UNCHANGED <<last, cvars>>

FirstOpts == {OptBody(b) : b \in BodiesFirst} \cup {OptS("WithApiKey", <<"k2">>)}

FirstOptLists == SeqsUpTo(FirstOpts, MaxOpts)

CallUpsertItemFirst ==
    /\ Idle
    /\ \E model \in Models, opts \in FirstOptLists, outcome \in Outcomes :
         last' = UpsertItemFirst(defaults, model, opts, outcome)
    /\ UNCHANGED <<defaults, urlArg, cvars>>

CallDeleteItemFirst ==
    /\ Idle
    /\ \E model \in Models, id \in Ids, opts \in FirstOptLists, outcome \in Outcomes :
         last' = DeleteItemFirst(defaults, model, id, opts, outcome)
    /\ UNCHANGED <<defaults, urlArg, cvars>>

NextFirst ==
    \/ SetDefaultBaseUrlFirst
    \/ SetDefaultApiKey
    \/ SetDefaultDebugMode
    \/ CallUpsertItemFirst
    \/ CallDeleteItemFirst
    \/ Discard

SpecFirst == Init /\ [][NextFirst]_vars

(* ------------- the base URL specification: every URL of Urls ------------ *)
SetDefaultBaseUrlAny == SetBaseUrlFrom(Urls)

UrlOptLists == SeqsUpTo({OptS("WithBaseURL", u) : u \in Urls}, MaxOpts)

CallGetAssetLinkUrls == AssetLinkWith(UrlOptLists)

NextUrl ==
    \/ SetDefaultBaseUrlAny
    \/ CallGetAssetLinkUrls
    \/ Discard

SpecUrl == Init /\ [][NextUrl]_vars

(* ------------- the quality specification: WithQuality(q) ---------------- *)
Qualities == (0 - 1)..MaxQuality

\* GetImage with the one option WithQuality(q)
CallGetImageQuality ==
    /\ Idle
    /\ \E id \in Ids, q \in Qualities, outcome \in Outcomes :
         last' = GetImage(defaults, id, <<OptN("WithQuality", q)>>, outcome)
    /\ UNCHANGED <<defaults, urlArg, cvars>>

NextQuality ==
    \/ SetDefaultBaseUrl
    \/ SetDefaultApiKey
    \/ CallGetImageQuality
    \/ Discard

SpecQuality == Init /\ [][NextQuality]_vars

(* ------ the frame specification: setters while a request is alive ------ *)
\* A call is taken in two steps, newCockpitReq and the rest of the
\* operation, and the setters may run in between: the request then holds
\* defaults that are the current ones no more.

\* the request is in the hands of its call and not yet run
InFlight == last.op = "newCockpitReq"

\* (mutant) the request reads the defaults when it is used
ownedReqLive(r, d) == newCockpitReq(d)

\* the request newCockpitReq returned holds copies of the defaults: it is
\* what it was, whatever the defaults d are now
ownedReq(r, d) == r

\* r := newCockpitReq(), the first statement of every operation
FrameNewReq ==
    /\ Idle
    /\ last' = [NoCall EXCEPT !.op = "newCockpitReq",
                              !.snap = newCockpitReq(defaults),
                              !.req = newCockpitReq(defaults)]
    /\ UNCHANGED <<defaults, urlArg, cvars>>

FrameSetHttpClient == (Idle \/ InFlight) /\ StoreHttpClient
FrameSetBaseUrl == (Idle \/ InFlight) /\ StoreBaseUrlFrom(DefaultUrls)
FrameSetApiKey == (Idle \/ InFlight) /\ StoreApiKey
FrameSetDebugMode == (Idle \/ InFlight) /\ StoreDebugMode

\* options that set each of the four fields taken from the defaults, and a
\* query parameter
FrameOpts ==
    {OptC("WithHttpClient", "c2"), OptS("WithBaseURL", <<"y">>),
     OptS("WithApiKey", <<"k2">>), OptB("WithDebugMode", TRUE),
     OptT("WithLocale", "en")}

FrameOptLists == SeqsUpTo(FrameOpts, MaxOpts)

\* the transport's answers in the frame specification: a 200 with the
\* object and a transport error
FrameOutcomes ==
    {o \in Outcomes : o.kind = "err" \/ (o.status = 200 /\ o.body.kind = "envelope")}

\* the rest of GetItem: the options and the run
FrameGetItem ==
    /\ InFlight
    /\ \E model \in Models, id \in Ids, opts \in FrameOptLists, outcome \in FrameOutcomes :
         last' = GetItemFrom(ownedReq(last.req, defaults), model, id, opts, outcome)
    /\ UNCHANGED <<defaults, urlArg, cvars>>

NextFrame ==
    \/ FrameNewReq
    \/ FrameSetHttpClient
    \/ FrameSetBaseUrl
    \/ FrameSetApiKey
    \/ FrameSetDebugMode
    \/ FrameGetItem
    \/ Discard

SpecFrame == Init /\ [][NextFrame]_vars

(* ------- the query parameter specification: every option, twice -------- *)
\* for each of the twelve parameters an option with one value and with
\* another, and one option that fails
ParamOpts ==
    {OptT("WithResizeMode", m) : m \in {"thumbnail", "bestFit"}}
      \cup {OptN("WithWidth", n) : n \in {0, 1, 2}}
      \cup {OptN("WithHeight", n) : n \in {1, 2}}
      \cup {OptN("WithQuality", n) : n \in {1, 100}}
      \cup {OptT("WithMime", m) : m \in {"png", "webp"}}
      \cup {OptT("WithLocale", l) : l \in {"en", "de"}}
      \cup {OptT("WithFields", f) : f \in {"f1", "f2"}}
      \cup {OptT("WithFilter", f) : f \in {"g1", "g2"}}
      \cup {OptT("WithSort", x) : x \in {"s1", "s2"}}
      \cup {OptN("WithLimit", n) : n \in {1, 2}}
      \cup {OptN("WithSkip", n) : n \in {0, 1}}
      \cup {OptB("WithPopulate", b) : b \in BOOLEAN}

ParamOptLists == SeqsUpTo(ParamOpts, MaxOpts)

CallGetImageParams ==
    /\ Idle
    /\ \E id \in Ids, opts \in ParamOptLists, outcome \in FrameOutcomes :
         last' = GetImage(defaults, id, opts, outcome)
    /\ UNCHANGED <<defaults, urlArg, cvars>>

NextParams ==
    \/ SetDefaultBaseUrl
    \/ SetDefaultApiKey
    \/ CallGetImageParams
    \/ Discard

SpecParams == Init /\ [][NextParams]_vars

(* ---------- the lock-level specification: goroutines and mtx ------------ *)
\* A setter is mtx.Lock(), the store, mtx.Unlock(); newCockpitReq is
\* mtx.RLock(), four loads, mtx.RUnlock().  A store is not atomic: between
\* its two halves the default is torn, and a load that meets a torn default
\* reads a half-written value.  The request is the caller's once
\* newCockpitReq has returned it; snap holds it while it is being filled.

\* the values the setters are called with
SetterJobs ==
    {[NoJob EXCEPT !.field = "httpClient", !.c = "c1"],
     [NoJob EXCEPT !.field = "apiKey", !.s = <<"k1">>],
     [NoJob EXCEPT !.field = "baseUrl", !.s = <<"x", "/api", "/">>],
     [NoJob EXCEPT !.field = "debug", !.b = TRUE]}

\* the value a setter stores
JobValue(j) ==
    CASE j.field = "httpClient" -> j.c
      [] j.field = "debug" -> j.b
      [] j.field = "baseUrl" -> storedUrl(j.s)
      [] OTHER -> j.s

\* (mutant) a reader does not wait for the writer
rlockFreeAlways(m) == TRUE

\* RLock returns when no writer holds the mutex or waits for it
rlockFree(m) == m.w = 0

\* (mutant) a writer does not wait for the readers
lockFreeAlways(m) == TRUE

\* Lock returns when the readers in flight have left
lockFree(m) == m.readers = {}

\* a goroutine calls one of the four setters
SetterCall(p) ==
    /\ pc[p] = "idle"
    /\ \E j \in SetterJobs : job' = [job EXCEPT ![p] = j]
    /\ pc' = [pc EXCEPT ![p] = "lock"]
    /\ UNCHANGED <<defaults, urlArg, last, mtx, torn, dirty, snap>>

\* mtx.Lock(), first half: the writer is announced, later readers wait
SetterLock(p) ==
    /\ pc[p] = "lock"
    /\ mtx.w = 0
    /\ mtx' = [mtx EXCEPT !.w = p]
    /\ pc' = [pc EXCEPT ![p] = "drain"]
    /\ UNCHANGED <<defaults, urlArg, last, torn, dirty, job, snap>>

\* mtx.Lock(), second half: the readers in flight have left
SetterLocked(p) ==
    /\ pc[p] = "drain"
    /\ lockFree(mtx)
    /\ pc' = [pc EXCEPT ![p] = "store"]
    /\ UNCHANGED <<defaults, urlArg, last, mtx, torn, dirty, job, snap>>

\* the store begins
SetterStoreBegin(p) ==
    /\ pc[p] = "store"
    /\ torn' = torn \cup {job[p].field}
    /\ pc' = [pc EXCEPT ![p] = "storing"]
    /\ UNCHANGED <<defaults, urlArg, last, mtx, dirty, job, snap>>

\* the store ends: the default holds the new value
SetterStoreEnd(p) ==
    /\ pc[p] = "storing"
    /\ defaults' = [defaults EXCEPT ![job[p].field] = JobValue(job[p])]
    /\ urlArg' = IF job[p].field = "baseUrl" THEN job[p].s ELSE urlArg
    /\ torn' = torn \ {job[p].field}
    /\ dirty' = dirty \cup {job[p].field}
    /\ pc' = [pc EXCEPT ![p] = "unlock"]
    /\ UNCHANGED <<last, mtx, job, snap>>

\* the deferred mtx.Unlock(); the setter returns
SetterUnlock(p) ==
    /\ pc[p] = "unlock"
    /\ mtx' = [mtx EXCEPT !.w = 0]
    /\ dirty' = dirty \ {job[p].field}
    /\ job' = [job EXCEPT ![p] = NoJob]
    /\ pc' = [pc EXCEPT ![p] = "idle"]
    /\ UNCHANGED <<defaults, urlArg, last, torn, snap>>

\* a goroutine calls newCockpitReq
SnapshotCall(p) ==
    /\ pc[p] = "idle"
    /\ pc' = [pc EXCEPT ![p] = "rlock"]
    /\ UNCHANGED <<defaults, urlArg, last, mtx, torn, dirty, job, snap>>

\* mtx.RLock()
SnapshotRLock(p) ==
    /\ pc[p] = "rlock"
    /\ rlockFree(mtx)
    /\ mtx' = [mtx EXCEPT !.readers = @ \cup {p}]
    /\ pc' = [pc EXCEPT ![p] = "read"]
    /\ UNCHANGED <<defaults, urlArg, last, torn, dirty, job, snap>>

\* the next default is loaded into the request, in the order of the
\* composite literal
SnapshotRead(p) ==
    /\ pc[p] = "read"
    /\ LET f == Fields[Cardinality(snap[p].got) + 1]
       IN /\ snap' = [snap EXCEPT ![p] =
                        [@ EXCEPT ![f] = defaults[f],
                                  !.got = @ \cup {f},
                                  !.tornRead = IF f \in torn THEN @ \cup {f} ELSE @,
                                  !.earlyRead = IF f \in dirty THEN @ \cup {f} ELSE @]]
          /\ pc' = [pc EXCEPT ![p] =
                      IF Cardinality(snap[p].got) + 1 = Len(Fields)
                      THEN "runlock" ELSE "read"]
    /\ UNCHANGED <<defaults, urlArg, last, mtx, torn, dirty, job>>

\* the deferred mtx.RUnlock(); newCockpitReq returns the request
SnapshotRUnlock(p) ==
    /\ pc[p] = "runlock"
    /\ mtx' = [mtx EXCEPT !.readers = @ \ {p}]
    /\ pc' = [pc EXCEPT ![p] = "idle"]
    /\ snap' = [snap EXCEPT ![p] = NoSnap]
    /\ UNCHANGED <<defaults, urlArg, last, torn, dirty, job>>

NextConc ==
    \E p \in Procs :
      \/ SetterCall(p)
      \/ SetterLock(p)
      \/ SetterLocked(p)
      \/ SetterStoreBegin(p)
      \/ SetterStoreEnd(p)
      \/ SetterUnlock(p)
      \/ SnapshotCall(p)
      \/ SnapshotRLock(p)
      \/ SnapshotRead(p)
      \/ SnapshotRUnlock(p)

SpecConc == Init /\ [][NextConc]_vars

\* the steps a goroutine takes inside a call it has begun
Running(p) ==
    \/ SetterLocked(p)
    \/ SetterStoreBegin(p)
    \/ SetterStoreEnd(p)
    \/ SetterUnlock(p)
    \/ SnapshotRead(p)
    \/ SnapshotRUnlock(p)

\* Fair scheduling: a goroutine inside a call keeps running, and a setter
\* that waits in Lock gets the mutex's writer side if it is free again and
\* again (sync.Mutex hands over to a starving waiter).  Nothing obliges a
\* goroutine to begin a call, and nothing is assumed about when a snapshot
\* that waits in RLock is let in.
FairConc ==
    \A p \in Procs :
      /\ WF_vars(Running(p))
      /\ SF_vars(SetterLock(p))

SpecConcFair == SpecConc /\ FairConc

(* ======================================================================= *)
(* Claims checked under Spec                                               *)
(* ======================================================================= *)
HttpOps == {"GetItems", "GetSingleton", "GetItem", "GetAsset", "GetImage",
            "UpsertItem", "DeleteItem"}

\* the validation rules of the options, as the specification lists them
Rejects(o) ==
    CASE o.name \in {"WithBaseURL", "WithApiKey"} -> o.s = <<>>
      [] o.name = "WithResizeMode" -> o.t \notin ResizeModes
      [] o.name = "WithMime" -> o.t \notin MimeTypes
      [] o.name \in {"WithWidth", "WithHeight", "WithLimit"} -> o.n < 1
      [] o.name = "WithQuality" -> o.n < 1 \/ o.n > 100
      [] o.name = "WithSkip" -> o.n < 0
      [] OTHER -> FALSE

\* the index of the first option of opts that fails, 0 when none does
FirstReject(opts) ==
    IF \E i \in 1..Len(opts) : Rejects(opts[i])
    THEN CHOOSE i \in 1..Len(opts) :
            Rejects(opts[i]) /\ \A j \in 1..(i - 1) : ~Rejects(opts[j])
    ELSE 0

\* the fields of a request an option can set
OptFields(r) == <<r.httpClient, r.apiKey, r.baseURL, r.params, r.debug>>

RECURSIVE AfterOpts(_, _)
\* the request after every option of opts acted on it, one after the other
AfterOpts(r, opts) ==
    IF opts = <<>> THEN r ELSE AfterOpts(ApplyOpt(Head(opts), r).r, Tail(opts))

\* C1: options are applied in the order supplied; the first option that
\* returns an error stops the application: no later option is run, the
\* request is as the options before it left it, the operation returns that
\* error and nothing is sent to the transport.
C1_FirstFailureStops ==
    ~Idle =>
      LET k == FirstReject(last.opts)
          n == Len(last.applied)
      IN /\ n <= Len(last.opts)
         /\ \A i \in 1..n : last.applied[i].name = last.opts[i].name
         /\ last.applied = SubSeq(last.opts, 1, n)
         /\ k = 0 => /\ n = Len(last.opts)
                     /\ OptFields(last.req) = OptFields(AfterOpts(last.snap, last.opts))
         /\ k > 0 => /\ n = k
                     /\ last.err = ApplyOpt(last.opts[k], last.req).err
                     /\ last.err # Nil
                     /\ OptFields(last.req)
                          = OptFields(AfterOpts(last.snap, SubSeq(last.opts, 1, k - 1)))
                     /\ last.sent = <<>>
                     /\ last.resp = <<>>
                     /\ last.ret = NilVal
                     /\ last.link = <<>>

\* C1 witness: a call whose second option failed after the first had set
\* the API key, with nothing sent
C1_Witness ==
    /\ last.op \in HttpOps
    /\ Len(last.opts) = 2
    /\ last.opts[1] = OptS("WithApiKey", <<"k2">>)
    /\ last.opts[2] = OptN("WithLimit", 0)
    /\ last.err = Err("limit must be greater than 0")
    /\ last.req.apiKey = <<"k2">>
    /\ last.sent = <<>>

\* the call reached the transport
Sent == ~Idle /\ last.sent # <<>>

\* the options of the call were all applied without error
OptsOk == ~Idle /\ FirstReject(last.opts) = 0

\* the call got a response and no transport error
GotResp == Sent /\ last.resp[1].kind = "resp"

Applied(name) == \E i \in 1..Len(last.applied) : last.applied[i].name = name

\* C6: GetItems picks the decode shape from the request's query parameters
\* alone, after all options are applied: the paginated envelope if and only
\* if both "skip" and "limit" are set, a bare sequence with one of them or
\* neither; the choice is the same whatever the transport answers (and is
\* made even when nothing is sent).
C6_ShapeFromParams ==
    (OptsOk /\ last.op = "GetItems") =>
      LET both == /\ Len(last.req.params["skip"]) > 0
                  /\ Len(last.req.params["limit"]) > 0
      IN /\ last.target \in {"Items", "slice"}
         /\ last.target = "Items" <=> both
         /\ both <=> (Applied("WithSkip") /\ Applied("WithLimit"))

\* C6 witness: only "limit" was set and the server answered 200 with the
\* paginated envelope: the bare sequence was still the shape decoded into
C6_Witness ==
    /\ GotResp
    /\ last.op = "GetItems"
    /\ Applied("WithLimit")
    /\ ~Applied("WithSkip")
    /\ last.resp[1].status = 200
    /\ last.resp[1].body.kind = "envelope"
    /\ last.target = "slice"

\* C7: GetItems returns Items in both modes: with WithLimit and WithSkip
\* applied, a 200 response {"data":[...],"meta":{"total":N}} is returned as
\* Items with that data and Meta.Total = N; without skip, a 200 bare array
\* is returned as Items with Data the array and Meta.Total = 0.
C7_UniformItems ==
    (GotResp /\ last.op = "GetItems" /\ last.resp[1].status = 200) =>
      LET body == last.resp[1].body
      IN /\ (Applied("WithLimit") /\ Applied("WithSkip") /\ body.kind = "envelope") =>
              /\ last.err = Nil
              /\ last.ret = Val("Items", body.items, body.total)
         /\ (~Applied("WithSkip") /\ body.kind = "array") =>
              /\ last.err = Nil
              /\ last.ret = Val("Items", body.items, 0)
         /\ last.err = Nil => last.ret.kind = "Items"

\* C7 witness: the paginated answer with total 42 came back as Items
C7_Witness ==
    /\ GotResp
    /\ last.op = "GetItems"
    /\ Applied("WithLimit")
    /\ Applied("WithSkip")
    /\ last.resp[1].status = 200
    /\ last.ret = Val("Items", <<"a">>, 42)

\* the debug record of the call, when it logged one
Logged == ~Idle /\ last.log # <<>>

\* C8: the debug record of a debug-enabled call holds the status (or
\* "ERROR"), the method, the URL and the response body or the transport
\* error text, and nothing of the request's API key: on success, on a
\* non-200 response and when the transport call fails. (URLs, paths and
\* response texts of the model hold no key.)
C8_NoKeyInDebugRecord ==
    /\ Logged =>
         LET rec == last.log[1]
             out == last.resp[1]
             url == last.req.baseURL \o last.req.path \o <<"?">>
                      \o ParamsEncode(last.req.params)
         IN /\ Range(last.req.apiKey) \cap Range(rec.text) = {}
            /\ last.req.apiKey # <<>>
            /\ rec.text = <<"[Cockpit][">>
                 \o (IF out.kind = "resp"
                     THEN <<ToString(out.status), StatusText(out.status)>>
                     ELSE <<"ERROR">>)
                 \o <<"]", last.req.method>> \o url \o <<"|">>
            /\ rec.body = IF out.kind = "resp" THEN ReadAll(out.body)
                          ELSE Val("error text", <<>>, 0)
    /\ (Sent /\ last.req.debug) => Logged

\* C8 witness: a debug-enabled call whose transport call failed logged an
\* "ERROR" record
C8_Witness ==
    /\ Logged
    /\ last.resp[1].kind = "err"
    /\ last.req.apiKey = <<"k2">>
    /\ last.log[1].text[2] = "ERROR"

\* C9: a request is executed only with a non-empty API key and a non-empty
\* base URL: when either is empty once defaults and options are applied,
\* the operation returns the missing-configuration error and the transport
\* is not invoked.
C9_ConfigRequired ==
    /\ Sent => (last.req.apiKey # <<>> /\ last.req.baseURL # <<>>)
    /\ (OptsOk /\ last.op \in HttpOps
          /\ (last.req.apiKey = <<>> \/ last.req.baseURL = <<>>)) =>
         /\ last.err \in {Err("apiKey is required"), Err("baseURL is required")}
         /\ last.req.apiKey = <<>> => last.err = Err("apiKey is required")
         /\ last.sent = <<>>
         /\ last.resp = <<>>

\* C9 witness: with both defaults set, WithBaseURL("/") left the base URL
\* empty and the call ended in the missing-configuration error
C9_Witness ==
    /\ OptsOk
    /\ last.op \in HttpOps
    /\ last.snap.apiKey # <<>>
    /\ last.snap.baseURL # <<>>
    /\ Applied("WithBaseURL")
    /\ last.req.baseURL = <<>>
    /\ last.err = Err("baseURL is required")
    /\ last.sent = <<>>

\* in the current definition an upsert cannot be without a body: the
\* wrapper is always there, so nil data is sent as {"data":null} and
\* nothing ends in a missing-body error
UpsertAlwaysHasBody ==
    (OptsOk /\ last.op = "UpsertItem" /\ configError(last.req) = Nil
       /\ last.data # "chan") =>
      /\ Sent
      /\ last.sent[1].body # <<>>
      /\ last.err # Err("body is required for upserting an item")

\* in the current definition DeleteItem reaches the transport with an
\* empty body
DeleteSentWithoutBody ==
    (OptsOk /\ last.op = "DeleteItem" /\ configError(last.req) = Nil) =>
      /\ Sent
      /\ last.sent[1].method = "DELETE"
      /\ last.sent[1].body = <<>>

\* the calls made on the body the transport returned, in order
WireEvents == SelectSeq(last.events, LAMBDA e : e.on = "wire")
\* the calls made on the in-memory copy that took its place
BufferEvents == SelectSeq(last.events, LAMBDA e : e.on = "buffer")

\* evs reads a body to its end (or to the failure of the read) and then
\* closes it, once, as the last call made on it
DrainedThenClosed(evs) ==
    /\ Len(evs) >= 2
    /\ evs[Len(evs)].op = "Close"
    /\ \A i \in 1..(Len(evs) - 1) : evs[i].op \notin {"Close", "ClientClose"}
    /\ \E i \in 1..(Len(evs) - 1) : evs[i].op \in {"ReadAll", "Copy"}

\* C11: when the transport returned a response, the operation has drained
\* its body and then closed it by the time it returns, on every path: 200
\* decoded or not, 404, another status, the raw image mode, with and without
\* debug; with debug the in-memory copy that replaces the body is drained
\* and closed as well.  (A response that comes together with a transport
\* error was closed by net/http before the library saw it.)
C11_BodyDrainedAndClosed ==
    /\ GotResp =>
         /\ DrainedThenClosed(WireEvents)
         /\ last.req.debug => DrainedThenClosed(BufferEvents)
         /\ ~last.req.debug => BufferEvents = <<>>
    /\ (Sent /\ last.resp[1].kind = "resp+err") => WireEvents[1].op = "ClientClose"
    /\ (~Idle /\ (last.resp = <<>> \/ last.resp[1].kind = "err")) => last.events = <<>>

\* C11 witness: without debug, a 200 answer that could not be decoded was
\* read by the decoder, drained and closed
C11_Witness ==
    /\ GotResp
    /\ ~last.req.debug
    /\ last.resp[1].status = 200
    /\ last.err = Err("json decode error")
    /\ last.events = <<Ev("wire", "Decode"), Ev("wire", "Copy"), Ev("wire", "Close")>>

\* what the call c hands the transport's answer to, run with the request's
\* debug flag set to debug
ExecOf(c, debug) ==
    LET r == [c.req EXCEPT !.debug = debug]
    IN IF c.op = "GetImage" THEN runImage(r, c.resp[1])
       ELSE run(r, c.target, c.resp[1])

\* what the operation of call c returns to its caller for the result x
RetOf(c, x) ==
    CASE c.op = "GetImage" -> x.val
      [] c.op = "DeleteItem" -> NilVal
      [] c.op = "GetItems" /\ c.target = "slice" -> itemsOfSlice(x)
      [] OTHER -> OrNil(x)

\* the call would return the same value and the same error with debug
\* enabled and with debug disabled
SameWithAndWithoutDebug ==
    /\ ExecOf(last, TRUE).err = ExecOf(last, FALSE).err
    /\ RetOf(last, ExecOf(last, TRUE)) = RetOf(last, ExecOf(last, FALSE))
    /\ last.err = ExecOf(last, last.req.debug).err
    /\ last.ret = RetOf(last, ExecOf(last, last.req.debug))

\* C13: debug logging neither raises nor masks an error, nor hides the
\* response body: for every request that reaches the transport and every
\* answer of the transport (a response of any status with any body, a body
\* whose read fails, a transport error), the value and the error the
\* operation returns are the same with debug enabled and disabled.
C13_DebugTransparent ==
    (Sent /\ last.op \in HttpOps) => SameWithAndWithoutDebug

\* what does hold: debug changes nothing unless the read of the body of a
\* 200 response fails while it is decoded; there the read failure is
\* returned without debug and "unexpected EOF" with it
DebugTransparentUnlessReadFails ==
    (Sent /\ last.op \in HttpOps) =>
      \/ SameWithAndWithoutDebug
      \/ /\ last.resp[1].kind = "resp"
         /\ last.resp[1].status = 200
         /\ last.resp[1].body.kind = "truncated"
         /\ last.target \in {"Items", "slice", "T"}
         /\ ExecOf(last, FALSE).err = Err("body read error")
         /\ ExecOf(last, TRUE).err = Err("unexpected EOF")

\* in the current definition the body of a request is nil or the wrapper
\* UpsertItem sets, which is encoded as JSON; data that cannot be encoded
\* ends the call in the encoding error with nothing sent
WrapperEncodedOrRefused ==
    (OptsOk /\ last.op \in HttpOps /\ configError(last.req) = Nil) =>
      /\ last.req.body.kind \in {"nil", "dataWrapper"}
      /\ last.req.body.kind = "dataWrapper" <=> last.op = "UpsertItem"
      /\ (last.req.body.kind = "dataWrapper" /\ last.data = "chan") =>
           /\ last.err = Err("failed to encode body")
           /\ last.sent = <<>>
           /\ last.resp = <<>>
      /\ (last.req.body.kind = "dataWrapper" /\ last.data # "chan") =>
           /\ Sent
           /\ last.sent[1].body = JsonEncode(last.req.body).text

(* ======================================================================= *)
(* Claims checked under SpecConc                                           *)
(* ======================================================================= *)
Writing(p) == pc[p] \in {"store", "storing", "unlock"}
Reading(p) == pc[p] \in {"read", "runlock"}

\* C2: setters and newCockpitReq never interleave inside the store: no
\* snapshot loads a default while a setter is between Lock and Unlock, no
\* two setters are there together, so no field of a snapshot is a
\* half-written value or the value of a setter that has not returned, and
\* the fields a snapshot has loaded are the store's current ones.
C2_SnapshotsNeverTorn ==
    /\ \A p \in Procs, q \in Procs : Writing(p) => ~Reading(q)
    /\ \A p \in Procs, q \in Procs : (Writing(p) /\ Writing(q)) => p = q
    /\ \A p \in Procs :
         /\ snap[p].tornRead = {}
         /\ snap[p].earlyRead = {}
         /\ \A f \in snap[p].got : snap[p][f] = defaults[f]
    /\ \A p \in Procs : Reading(p) => (torn = {} /\ dirty = {})

\* C2 witness: a snapshot has loaded all four defaults, the API key one
\* that a setter wrote, while another setter waits for it to leave
C2_Witness ==
    \E p \in Procs, q \in Procs :
      /\ pc[p] = "runlock"
      /\ snap[p].got = Range(Fields)
      /\ snap[p].apiKey = <<"k1">>
      /\ pc[q] = "drain"
      /\ job[q].field = "baseUrl"

(* ======================================================================= *)
(* Claims checked under SpecUrl                                            *)
(* ======================================================================= *)
\* the URL of the last WithBaseURL option the call applied
LastUrlOpt == last.applied[Len(last.applied)].s

\* a call whose options, the last one a WithBaseURL, were all applied
UrlOptApplied ==
    /\ OptsOk
    /\ Len(last.applied) > 0
    /\ last.applied[Len(last.applied)].name = "WithBaseURL"

\* b is u without its last "/" when u ends with "/", and u otherwise
OneSlashOff(u, b) ==
    IF EndsWith(u, "/") THEN b \o <<"/">> = u ELSE b = u

EndsWithTwoSlashes(u) == Len(u) >= 2 /\ u[Len(u)] = "/" /\ u[Len(u) - 1] = "/"

\* C3 (as claimed): for every URL u, the request newCockpitReq returns
\* after SetDefaultBaseUrl(u), and the request a WithBaseURL(u) was applied
\* to, has a base URL that does not end with "/".
C3_NeverEndsWithSlash ==
    ~Idle =>
      /\ ~EndsWith(last.snap.baseURL, "/")
      /\ UrlOptApplied => ~EndsWith(last.req.baseURL, "/")

\* C3 (amended): one trailing "/" is stripped: the request's base URL is u
\* without its last "/" when u ends with "/" and u otherwise, so it ends
\* with "/" exactly when u ends with "//".
C3_OneSlashStripped ==
    ~Idle =>
      /\ OneSlashOff(urlArg, last.snap.baseURL)
      /\ EndsWith(last.snap.baseURL, "/") <=> EndsWithTwoSlashes(urlArg)
      /\ UrlOptApplied =>
           /\ OneSlashOff(LastUrlOpt, last.req.baseURL)
           /\ EndsWith(last.req.baseURL, "/") <=> EndsWithTwoSlashes(LastUrlOpt)

\* C3 witness: SetDefaultBaseUrl("x/") gave the request the base URL "x",
\* and WithBaseURL("x//") then left it "x/"
C3_Witness ==
    /\ UrlOptApplied
    /\ urlArg = <<"x", "/">>
    /\ last.snap.baseURL = <<"x">>
    /\ LastUrlOpt = <<"x", "/", "/">>
    /\ last.req.baseURL = <<"x", "/">>

(* ======================================================================= *)
(* Claims checked under SpecFirst                                          *)
(* ======================================================================= *)
\* an upsert of the first definition whose options and configuration pass
UpsertFirstReady ==
    /\ OptsOk
    /\ last.op = "UpsertItemFirst"
    /\ configError(last.req) = Nil

\* the request has no body, or one with nothing in it
BodyMissingOrEmpty(body) ==
    \/ body.kind = "nil"
    \/ body.kind \in {"reader", "bytes", "string"} /\ body.text = <<>>

\* C10: a state-mutating call (upsert, POST) whose request has no body or
\* an empty body fails with the missing-body error before the transport is
\* invoked, while DeleteItem (DELETE) is exempt and is sent without a body.
C10_MissingBody ==
    /\ (UpsertFirstReady /\ BodyMissingOrEmpty(last.req.body)) =>
         /\ last.err = Err("body is required for upserting an item")
         /\ last.sent = <<>>
    /\ (OptsOk /\ last.op = "DeleteItemFirst" /\ configError(last.req) = Nil
          /\ last.req.body.kind = "nil") =>
         /\ Sent
         /\ last.sent[1].body = <<>>

\* what the first definition does guarantee: a POST without any body (nil)
\* fails with the missing-body error and nothing is sent, and DeleteItem
\* without a body is sent
NilBodyRefused ==
    /\ (UpsertFirstReady /\ last.req.body.kind = "nil") =>
         /\ last.err = Err("body is required for upserting an item")
         /\ last.sent = <<>>
    /\ (OptsOk /\ last.op = "DeleteItemFirst" /\ configError(last.req) = Nil
          /\ last.req.body.kind = "nil") =>
         /\ Sent
         /\ last.sent[1].body = <<>>

(* ======================================================================= *)
(* Claims checked under SpecConcFair                                       *)
(* ======================================================================= *)
\* a goroutine inside a call
Busy(p) == pc[p] # "idle"

\* some goroutine inside a call can take its next step
SomeoneRuns == \E p \in Procs : ENABLED <<SetterLock(p) \/ SnapshotRLock(p) \/ Running(p)>>_vars

\* a snapshot enters the mutex only when no setter holds it or waits for it
NoReaderPastWriter == [][mtx.w # 0 => mtx'.readers \subseteq mtx.readers]_vars

\* C12: under fair scheduling every setter call that has started gets the
\* mutex for writing and then returns, whatever the snapshots do; snapshots
\* hold the mutex together; a setter that waits is passed by no snapshot
\* that was not in flight already; and while any call is in progress some
\* call can move, so no state is a deadlock.
C12_SettersReturn ==
    /\ \A p \in Procs : (pc[p] = "lock") ~> (pc[p] = "store")
    /\ \A p \in Procs : (pc[p] = "store") ~> (pc[p] = "idle" /\ job[p] = NoJob)
    /\ NoReaderPastWriter
    /\ []((\E p \in Procs : Busy(p)) => SomeoneRuns)

\* C12 witness: a setter waits for a snapshot in flight that has loaded all
\* four defaults and still holds the mutex
C12_Witness ==
    \E p \in Procs, q \in Procs :
      /\ pc[p] = "drain"
      /\ mtx.w = p
      /\ q \in mtx.readers
      /\ pc[q] = "runlock"

\* a call of the first definition whose options and configuration pass
FirstReady ==
    /\ OptsOk
    /\ last.op \in {"UpsertItemFirst", "DeleteItemFirst"}
    /\ configError(last.req) = Nil

\* C14: the body encoding rule: a body that is an io.Reader, a []byte or a
\* string is sent as it is, with no JSON encoding; any other body that is
\* not nil is sent as its JSON text; a body that cannot be encoded ends the
\* call in the encoding error and the transport is not invoked.
C14_BodyEncoding ==
    FirstReady =>
      LET b == last.req.body
      IN /\ b.kind \in {"reader", "bytes", "string"} =>
              /\ Sent
              /\ last.sent[1].body = b.text
         /\ (b.kind = "value" /\ b.data # "chan") =>
              /\ Sent
              /\ last.sent[1].body = JsonOf(b.data) \o <<"\n">>
              /\ last.sent[1].body # <<>>
         /\ (b.kind = "value" /\ b.data = "chan") =>
              /\ last.err = Err("failed to encode body")
              /\ last.sent = <<>>
              /\ last.resp = <<>>

\* C14 witness: the string body "raw" of an upsert went out as raw
C14_Witness ==
    /\ FirstReady
    /\ last.op = "UpsertItemFirst"
    /\ last.req.body = Body("string", <<"raw">>, "nil")
    /\ Sent
    /\ last.sent[1].method = "POST"
    /\ last.sent[1].body = <<"raw">>

(* ======================================================================= *)
(* Claims checked under SpecQuality                                        *)
(* ======================================================================= *)
\* s holds the tokens of t, in a row
Contains(s, t) ==
    \E i \in 1..(Len(s) - Len(t) + 1) : SubSeq(s, i, i + Len(t) - 1) = t

\* C15: for every integer q, WithQuality(q) succeeds if and only if
\* 1 <= q <= 100, both ends included: with q in the range the request's
\* query parameter "q" is q (and a request that is sent carries q=<q>), with
\* q outside of it the call ends in the validation error, "q" is not set
\* and nothing is sent.
C15_QualityRange ==
    (last.op = "GetImage" /\ Len(last.opts) = 1 /\ last.opts[1].name = "WithQuality") =>
      LET q == last.opts[1].n
          refused == last.err = Err("quality must be between 1 and 100")
      IN /\ refused <=> ~(1 <= q /\ q <= 100)
         /\ q \in {0, 101} => refused
         /\ q \in {1, 100} => ~refused
         /\ ~refused =>
              /\ last.req.params["q"] = <<ToString(q)>>
              /\ Sent => Contains(last.sent[1].url, <<"q", "=", ToString(q)>>)
         /\ refused =>
              /\ last.req.params["q"] = <<>>
              /\ last.sent = <<>>
              /\ last.ret = NilVal

\* C15 witness: WithQuality(100) was accepted and the image was asked for
\* with q=100
C15_Witness ==
    /\ last.op = "GetImage"
    /\ last.opts = <<OptN("WithQuality", 100)>>
    /\ last.err = Nil
    /\ Sent
    /\ Contains(last.sent[1].url, <<"q", "=", "100">>)

(* ======================================================================= *)
(* Claims checked under SpecFrame                                          *)
(* ======================================================================= *)
\* the defaults whose value a step changes
ChangedDefaults == {f \in Range(Fields) : defaults'[f] # defaults[f]}

\* the four fields of a request that come from the defaults
FromDefaults(r) == <<r.httpClient, r.apiKey, r.baseURL, r.debug>>

\* the step of a call: newCockpitReq, options and run, or the end of the
\* request's life
CallStep == last' # last

\* the step that runs the options and the operation on the request in
\* flight
RunStep == InFlight /\ last'.op = "GetItem"

\* C16: the shared defaults are changed by the setters only, one default
\* per call, and a request by its own call only: newCockpitReq, the options
\* (WithHttpClient, WithBaseURL, WithApiKey, WithDebugMode, a query
\* parameter) and the run of an operation leave the defaults as they are,
\* and a setter that runs after newCockpitReq returned a request leaves
\* that request as it is: the operation runs on the API key, base URL,
\* debug flag and transport snapshotted, changed by its own options only.
C16_Frame ==
    [][/\ CallStep => defaults' = defaults
       /\ ChangedDefaults # {} => (last' = last /\ Cardinality(ChangedDefaults) = 1)
       /\ (Idle /\ last'.op = "newCockpitReq") =>
            /\ FromDefaults(last'.req) = <<defaults.httpClient, defaults.apiKey,
                                           defaults.baseUrl, defaults.debug>>
            /\ last'.req.params = EmptyParams
       /\ RunStep =>
            /\ last'.snap = last.req
            /\ OptFields(last'.req) = OptFields(AfterOpts(last.req, last'.opts))
            /\ last'.sent # <<>> =>
                 /\ last'.sent[1].apiKey = last'.req.apiKey
                 /\ last'.sent[1].client
                      = (IF last'.req.httpClient = "nil" THEN "http.DefaultClient"
                         ELSE last'.req.httpClient)
                 /\ SubSeq(last'.sent[1].url, 1, Len(last'.req.baseURL))
                      = last'.req.baseURL
                 /\ (last'.log # <<>>) <=> last'.req.debug]_vars

\* C16 witness: GetItem ran with the API key and the debug flag its request
\* had taken from the defaults, both changed by setters before it ran, and
\* with the locale its own option set
C16_Witness ==
    /\ last.op = "GetItem"
    /\ last.snap.apiKey = <<"k1">>
    /\ last.snap.debug
    /\ defaults.apiKey = <<>>
    /\ ~defaults.debug
    /\ last.applied = <<OptT("WithLocale", "en")>>
    /\ Sent
    /\ last.sent[1].apiKey = <<"k1">>
    /\ last.log # <<>>

(* ======================================================================= *)
(* Claims checked under SpecParams                                         *)
(* ======================================================================= *)
\* the query parameter an option sets, and the value it sets it to
KeyOf(o) ==
    CASE o.name = "WithResizeMode" -> "m"
      [] o.name = "WithWidth" -> "w"
      [] o.name = "WithHeight" -> "h"
      [] o.name = "WithQuality" -> "q"
      [] o.name = "WithMime" -> "mime"
      [] o.name = "WithLocale" -> "locale"
      [] o.name = "WithFields" -> "fields"
      [] o.name = "WithFilter" -> "filter"
      [] o.name = "WithSort" -> "sort"
      [] o.name = "WithLimit" -> "limit"
      [] o.name = "WithSkip" -> "skip"
      [] o.name = "WithPopulate" -> "populate"
      [] OTHER -> "none"

ValueOf(o) ==
    CASE o.name \in {"WithWidth", "WithHeight", "WithQuality", "WithLimit", "WithSkip"} ->
            ToString(o.n)
      [] o.name = "WithPopulate" -> IF o.b THEN "1" ELSE "0"
      [] OTHER -> o.t

\* the places in the options the call ran of those that succeeded and set k
SetsOf(k) ==
    {i \in 1..Len(last.applied) : ~Rejects(last.applied[i]) /\ KeyOf(last.applied[i]) = k}

Max(S) == CHOOSE i \in S : \A j \in S : j <= i

\* how many pairs k=... the text of a query holds
PairsOf(url, k) ==
    Cardinality({i \in 1..(Len(url) - 1) : url[i] = k /\ url[i + 1] = "="})

\* C17: after the options that were applied with success, every query
\* parameter of the request holds at most one value, the one the last of
\* them for that key set: a repeated option replaces the value and never
\* adds a second one, a key no option set is absent, the request
\* newCockpitReq returns has no parameter, and the URL that is sent holds
\* each key once at most.
C17_OneValuePerKey ==
    ~Idle =>
      /\ last.snap.params = EmptyParams
      /\ \A k \in ParamKeys :
           /\ Len(last.req.params[k]) <= 1
           /\ SetsOf(k) = {} => last.req.params[k] = <<>>
           /\ SetsOf(k) # {} =>
                last.req.params[k] = <<ValueOf(last.applied[Max(SetsOf(k))])>>
           /\ Sent => PairsOf(last.sent[1].url, k) = Len(last.req.params[k])

\* C17 witness: WithWidth(1) then WithWidth(2) left the one value 2, and
\* the image was asked for with w=2 only
C17_Witness ==
    /\ last.op = "GetImage"
    /\ last.applied = <<OptN("WithWidth", 1), OptN("WithWidth", 2)>>
    /\ last.req.params["w"] = <<"2">>
    /\ Sent
    /\ Contains(last.sent[1].url, <<"?", "w", "=", "2">>)
    /\ ~Contains(last.sent[1].url, <<"w", "=", "1">>)

====
